---- MODULE Spec2Model ----
(***************************************************************************)
(* Model of the Telegram quiz bot: the data access layer over SQLite       *)
(* (dal.createQuiz, dal.saveQuizAnswers, dal.getQuizWithQuestions), the    *)
(* in-memory /create_quiz wizard (adminStates) and the Telegraf handlers   *)
(* that drive them, in their order of registration.                        *)
(*                                                                         *)
(* Texts are sequences of one-character strings, so that trim, split and   *)
(* Number() are computed character by character as the JavaScript does.    *)
(***************************************************************************)
EXTENDS Integers, Sequences, FiniteSets, TLC

VARIABLES
    db,           \* the SQLite tables: quizzes, questions, answers
    adminStates,  \* the wizard map: user id -> draft (present = FALSE: no entry)
    reply,        \* what the handler of the last update sent with ctx.reply
    storeFailed,  \* a store write of the last update threw
    thrown,       \* the exception that escaped the last handler ("none" if none)
    handled,      \* the last update: its handler, its sender, and the step the
                  \* sender's draft was in when it arrived
    awaiting      \* the finish_quiz callbacks suspended at their await: the
                  \* user and the id of the quiz each has created

vars == <<db, adminStates, reply, storeFailed, thrown, handled, awaiting>>

----------------------------------------------------------------------------
(* Bounds of the model.                                                    *)

\* Rows the questions table may hold, the two seeded ones included; a draft
\* collects no more questions than still fit.
MaxQuestionRows == 3
\* Rows the answers table may hold.
MaxAnswerRows == 1

----------------------------------------------------------------------------
(* Identities.  ADMIN_IDS comes from the environment; the model fixes it.  *)

ADMIN_IDS == {"100", "101"}
Users == {"100", "101", "200"}
\* The identities that send updates under Spec: one administrator, one not.
Senders == {"100", "200"}
\* The identity that sends updates under SpecWeb.
WebSenders == {"100"}

\* Everyone passes for an administrator.
isAdminAnyone(userId) == TRUE

isAdmin(userId) == userId \in ADMIN_IDS

----------------------------------------------------------------------------
(* String primitives of the JavaScript the handlers use.                   *)

IsSpace(c) == c = " "

RECURSIVE TrimStart(_)
TrimStart(s) ==
    IF s = <<>> THEN s
    ELSE IF IsSpace(Head(s)) THEN TrimStart(Tail(s)) ELSE s

RECURSIVE TrimEnd(_)
TrimEnd(s) ==
    IF s = <<>> THEN s
    ELSE IF IsSpace(s[Len(s)]) THEN TrimEnd(SubSeq(s, 1, Len(s) - 1)) ELSE s

\* The text taken as it was sent.
NoTrim(s) == s

\* String.prototype.trim
Trim(s) == TrimEnd(TrimStart(s))

RECURSIVE SplitAcc(_, _, _)
SplitAcc(s, sep, cur) ==
    IF s = <<>> THEN <<cur>>
    ELSE IF Head(s) = sep
         THEN <<cur>> \o SplitAcc(Tail(s), sep, <<>>)
         ELSE SplitAcc(Tail(s), sep, Append(cur, Head(s)))

\* String.prototype.split with a one-character separator: "A;" gives ["A", ""].
Split(s, sep) == SplitAcc(s, sep, <<>>)

Digits == {"0", "1", "2", "3", "4", "5", "6", "7", "8", "9"}

DigitVal(c) ==
    CASE c = "0" -> 0 [] c = "1" -> 1 [] c = "2" -> 2 [] c = "3" -> 3
      [] c = "4" -> 4 [] c = "5" -> 5 [] c = "6" -> 6 [] c = "7" -> 7
      [] c = "8" -> 8 [] c = "9" -> 9

IsDigits(s) == \A i \in 1..Len(s) : s[i] \in Digits

RECURSIVE DigitsVal(_)
DigitsVal(s) ==
    IF s = <<>> THEN 0
    ELSE DigitsVal(SubSeq(s, 1, Len(s) - 1)) * 10 + DigitVal(s[Len(s)])

NaN == [nan |-> TRUE, isInt |-> FALSE, val |-> 0]

\* Number(text) on a trimmed text: an optional sign, digits, an optional
\* fraction; anything else is NaN.  (Exponents, hexadecimal and Infinity are
\* outside the alphabet of the model.)  isInt is Number.isInteger of the
\* result: "2.0" is the integer 2, "1.5" is a number that is no integer.
Number(s) ==
    LET signed == s # <<>> /\ Head(s) \in {"-", "+"}
        neg    == s # <<>> /\ Head(s) = "-"
        body   == IF signed THEN Tail(s) ELSE s
        dots   == {i \in 1..Len(body) : body[i] = "."}
        d      == IF dots = {} THEN Len(body) + 1 ELSE CHOOSE i \in dots : TRUE
        ip     == SubSeq(body, 1, d - 1)
        fp     == SubSeq(body, d + 1, Len(body))
        wellFormed == /\ Cardinality(dots) <= 1
                      /\ IsDigits(ip) /\ IsDigits(fp)
                      /\ (ip # <<>> \/ fp # <<>>)
    IN  IF s = <<>> THEN [nan |-> FALSE, isInt |-> TRUE, val |-> 0]
        ELSE IF ~wellFormed THEN NaN
        ELSE [nan   |-> FALSE,
              isInt |-> \A i \in 1..Len(fp) : fp[i] = "0",
              val   |-> IF neg THEN 0 - DigitsVal(ip) ELSE DigitsVal(ip)]

RECURSIVE JoinQuoted(_)
JoinQuoted(items) ==
    IF items = <<>> THEN <<>>
    ELSE <<"\"">> \o Head(items) \o <<"\"">>
         \o (IF Len(items) > 1 THEN <<",">> ELSE <<>>)
         \o JoinQuoted(Tail(items))

\* JSON.stringify of an array of strings (no quote or backslash occurs in the
\* alphabet of the model, so nothing is escaped).
JSONstringify(items) == <<"[">> \o JoinQuoted(items) \o <<"]">>

RECURSIVE ParseItems(_, _, _, _)
ParseItems(s, inString, cur, acc) ==
    IF s = <<>> THEN acc
    ELSE IF Head(s) = "\""
         THEN IF inString
              THEN ParseItems(Tail(s), FALSE, <<>>, Append(acc, cur))
              ELSE ParseItems(Tail(s), TRUE, <<>>, acc)
         ELSE IF inString
              THEN ParseItems(Tail(s), TRUE, Append(cur, Head(s)), acc)
              ELSE ParseItems(Tail(s), FALSE, cur, acc)

\* JSON.parse of what JSONstringify wrote.
JSONparse(s) == ParseItems(s, FALSE, <<>>, <<>>)

----------------------------------------------------------------------------
(* The store: three tables, each a sequence of rows in insertion order.    *)
(* Ids are AUTOINCREMENT and no row is ever deleted, so a new row's id is  *)
(* the table's length plus one.                                            *)

EmptyDb == [quizzes |-> <<>>, questions |-> <<>>, answers |-> <<>>]

\* INSERT INTO quizzes (title, created_by)
InsertQuiz(d, title, createdBy) ==
    [d EXCEPT !.quizzes =
        Append(@, [id |-> Len(@) + 1, title |-> title, created_by |-> createdBy])]

\* INSERT INTO questions (quiz_id, text, options, correct_option)
InsertQuestion(d, quizId, text, options, correctOption) ==
    [d EXCEPT !.questions =
        Append(@, [id |-> Len(@) + 1, quiz_id |-> quizId, text |-> text,
                   options |-> options, correct_option |-> correctOption])]

\* INSERT INTO answers (user_id, quiz_id, question_id, selected_option, correct)
InsertAnswer(d, userId, quizId, questionId, selectedOption, correct) ==
    [d EXCEPT !.answers =
        Append(@, [id |-> Len(@) + 1, user_id |-> userId, quiz_id |-> quizId,
                   question_id |-> questionId,
                   selected_option |-> selectedOption, correct |-> correct])]

\* A transaction that keeps what was inserted before the throw.
transactionNoRollback(before, run) ==
    [db |-> run.db, threw |-> ~run.ok, value |-> run.value]

\* db.transaction(fn)(): `run` is what the statements of fn did before fn
\* returned (ok) or threw (~ok).  A throw rolls back to `before` and is
\* thrown again to the caller.
transaction(before, run) ==
    IF run.ok
    THEN [db |-> run.db, threw |-> FALSE, value |-> run.value]
    ELSE [db |-> before, threw |-> TRUE, value |-> 0]

\* The loop of createQuiz: statement number n is the next insert; the insert
\* numbered failAt throws (failAt = 0: none does).
RECURSIVE InsertQuestions(_, _, _, _, _)
InsertQuestions(d, quizId, qs, n, failAt) ==
    IF qs = <<>> THEN [db |-> d, ok |-> TRUE, value |-> quizId]
    ELSE IF n = failAt THEN [db |-> d, ok |-> FALSE, value |-> 0]
    ELSE InsertQuestions(
            InsertQuestion(d, quizId, Head(qs).text,
                           JSONstringify(Head(qs).options), Head(qs).correctOption),
            quizId, Tail(qs), n + 1, failAt)

createQuiz(d, quizData, failAt) ==
    LET withQuiz == InsertQuiz(d, quizData.title, quizData.createdBy)
        quizId   == Len(withQuiz.quizzes)
        run == IF failAt = 1
               THEN [db |-> d, ok |-> FALSE, value |-> 0]
               ELSE InsertQuestions(withQuiz, quizId, quizData.questions, 2, failAt)
    IN  transaction(d, run)

RECURSIVE InsertAnswers(_, _, _, _, _, _)
InsertAnswers(d, userId, quizId, as, n, failAt) ==
    IF as = <<>> THEN [db |-> d, ok |-> TRUE, value |-> 0]
    ELSE IF n = failAt THEN [db |-> d, ok |-> FALSE, value |-> 0]
    ELSE InsertAnswers(
            InsertAnswer(d, userId, quizId, Head(as).questionId,
                         Head(as).selectedOption,
                         IF Head(as).correct THEN 1 ELSE 0),
            userId, quizId, Tail(as), n + 1, failAt)

saveQuizAnswers(d, userId, quizId, answers, failAt) ==
    transaction(d, InsertAnswers(d, userId, quizId, answers, 1, failAt))

\* The lookup without its test for a missing quiz row.
getQuizNeverNull(d, quizId) ==
    LET mine == SelectSeq(d.questions, LAMBDA q : q.quiz_id = quizId)
    IN  [found |-> TRUE,
         questions |-> [i \in 1..Len(mine) |->
                          [id |-> mine[i].id, text |-> mine[i].text,
                           options |-> JSONparse(mine[i].options),
                           correct_option |-> mine[i].correct_option]]]

getQuizWithQuestions(d, quizId) ==
    LET found == \E i \in 1..Len(d.quizzes) : d.quizzes[i].id = quizId
        mine  == SelectSeq(d.questions, LAMBDA q : q.quiz_id = quizId)
    IN  [found |-> found,
         questions |-> [i \in 1..Len(mine) |->
                          [id |-> mine[i].id, text |-> mine[i].text,
                           options |-> JSONparse(mine[i].options),
                           correct_option |-> mine[i].correct_option]]]

\* The example quiz, its texts shortened to one or two characters.
SeedQuestions ==
    << [text |-> <<"S", "1">>, options |-> << <<"a">>, <<"b">>, <<"c">>, <<"d">> >>,
        correctOption |-> 0],
       [text |-> <<"S", "2">>, options |-> << <<"e">>, <<"f">>, <<"g">>, <<"h">> >>,
        correctOption |-> 0] >>

seedExampleQuiz(d) ==
    IF Len(d.quizzes) > 0 THEN d
    ELSE createQuiz(d, [title |-> <<"S">>, createdBy |-> "system",
                        questions |-> SeedQuestions], 0).db

----------------------------------------------------------------------------
(* The wizard: adminStates maps a user id to a draft.                      *)

EmptyQuestion == [text |-> <<>>, options |-> <<>>, correctOption |-> 0]

\* No entry of the map for the user.
NoDraft ==
    [present |-> FALSE, step |-> "none",
     quiz |-> [title |-> <<>>, questions |-> <<>>],
     hasCurrent |-> FALSE, currentQuestion |-> EmptyQuestion]

\* The object /create_quiz stores: it has no currentQuestion yet.
NewDraft ==
    [present |-> TRUE, step |-> "title",
     quiz |-> [title |-> <<>>, questions |-> <<>>],
     hasCurrent |-> FALSE, currentQuestion |-> EmptyQuestion]

NoReply == [to |-> "", kind |-> "none", a |-> 0, b |-> 0]
Reply(to, kind, a, b) == [to |-> to, kind |-> kind, a |-> a, b |-> b]

\* A rejection that also clears the question in progress.
RejectedResetsQuestion(state, kind, a) ==
    [state |-> [state EXCEPT !.currentQuestion = EmptyQuestion],
     finalize |-> FALSE, replied |-> TRUE, kind |-> kind, a |-> a]

\* `return ctx.reply(...)` of a validation failure: nothing was assigned.
Rejected(state, kind, a) ==
    [state |-> state, finalize |-> FALSE, replied |-> TRUE, kind |-> kind, a |-> a]

\* An accepted question text that moves the draft past the options step.
AcceptedSkipsOptions(state, kind, a) ==
    [state |-> IF state.step = "options"
               THEN [state EXCEPT !.step = "correct_index"] ELSE state,
     finalize |-> FALSE, replied |-> TRUE, kind |-> kind, a |-> a]

Accepted(state, kind, a) ==
    [state |-> state, finalize |-> FALSE, replied |-> TRUE, kind |-> kind, a |-> a]

\* The test for an empty question list left out.
NeverNoQuestions(state) == FALSE

\* state.quiz.questions.length === 0
NoQuestions(state) == Len(state.quiz.questions) = 0

\* Only a message without text counts as having none.
FalsyOnlyUndefined(hasText, text) == ~hasText

\* !text : message.text is undefined (no text in the message) or ''.
Falsy(hasText, text) == ~hasText \/ text = <<>>

\* The pieces trimmed but the empty ones kept.
ParseOptionsKeepsEmpty(text) ==
    LET pieces == Split(text, ";")
    IN  [i \in 1..Len(pieces) |-> Trim(pieces[i])]

\* text.split(';').map((p) => p.trim()).filter(Boolean)
ParseOptions(text) ==
    LET pieces  == Split(text, ";")
        trimmed == [i \in 1..Len(pieces) |-> Trim(pieces[i])]
    IN  SelectSeq(trimmed, LAMBDA p : p # <<>>)

\* The range check without its lower bound.
ValidIndexNoLowerBound(index, n) ==
    ~index.nan /\ index.isInt /\ index.val <= n

\* The range check without its upper bound.
ValidIndexNoUpperBound(index, n) ==
    ~index.nan /\ index.isInt /\ index.val >= 1

\* The condition under which the answer number is taken, for n options.
ValidIndex(index, n) ==
    ~index.nan /\ index.isInt /\ index.val >= 1 /\ index.val <= n

\* One message of an administrator who has a draft: lines 416-496.
WizardStep(state, hasText, rawText) ==
    LET text == IF hasText THEN Trim(rawText) ELSE <<>> IN
    IF Falsy(hasText, text) THEN Rejected(state, "need_text", 0)
    ELSE IF state.step = "title" THEN
        Accepted([state EXCEPT !.quiz.title = text,
                               !.step = "question_text",
                               !.hasCurrent = TRUE,
                               !.currentQuestion = EmptyQuestion],
                 "prompt_question", 0)
    ELSE IF state.step = "question_text" THEN
        IF text = <<>> THEN
            IF NoQuestions(state)
            THEN Rejected(state, "need_question", 0)
            ELSE [state |-> state, finalize |-> TRUE, replied |-> TRUE,
                  kind |-> "created", a |-> 0]
        ELSE Accepted([state EXCEPT !.currentQuestion.text = text,
                                    !.step = "options"],
                      "prompt_options", 0)
    ELSE IF state.step = "options" THEN
        LET parts == ParseOptions(text) IN
        IF Len(parts) < 2 THEN Rejected(state, "need_two_options", 0)
        ELSE Accepted([state EXCEPT !.currentQuestion.options = parts,
                                    !.step = "correct_index"],
                      "prompt_index", Len(parts))
    ELSE IF state.step = "correct_index" THEN
        LET index == Number(text)
            n     == Len(state.currentQuestion.options) IN
        IF ~ValidIndex(index, n) THEN Rejected(state, "bad_index", n)
        ELSE Accepted(
                [state EXCEPT
                    !.quiz.questions =
                        Append(@, [state.currentQuestion EXCEPT
                                      !.correctOption = index.val - 1]),
                    !.currentQuestion = EmptyQuestion,
                    !.step = "question_text"],
                "question_saved", 0)
    ELSE [state |-> state, finalize |-> FALSE, replied |-> FALSE,
          kind |-> "none", a |-> 0]

\* The quizData both finalizations hand to dal.createQuiz.
QuizData(state, userId) ==
    [title |-> state.quiz.title, createdBy |-> userId,
     questions |-> state.quiz.questions]

----------------------------------------------------------------------------
(* Updates and the inputs the model draws them from.                       *)

NoPayload == [type |-> "none", quizId |-> 0, answers |-> <<>>]

TextMsg(t) ==
    [kind |-> "message", hasText |-> TRUE, text |-> t, web |-> NoPayload, data |-> ""]
\* A message without text (a photo, a sticker).
NoTextMsg ==
    [kind |-> "message", hasText |-> FALSE, text |-> <<>>, web |-> NoPayload, data |-> ""]
\* A message carrying web_app_data.
WebMsg(p) ==
    [kind |-> "message", hasText |-> FALSE, text |-> <<>>, web |-> p, data |-> ""]
\* A press of an inline button.
Callback(d) ==
    [kind |-> "callback_query", hasText |-> FALSE, text |-> <<>>, web |-> NoPayload,
     data |-> d]

CmdCreateQuiz == <<"/", "c", "r", "e", "a", "t", "e", "_", "q", "u", "i", "z">>
CmdOpen == <<"/", "o", "p", "e", "n">>

T_Empty   == <<>>
T_Blank   == <<" ">>
T_Options == <<"A", ";", " ", "B">>
T_Two     == <<" ", "2">>
T_Zero    == <<"0">>

T_Five    == <<"5">>
T_Half    == <<"1", ".", "5">>
T_TwoDot  == <<"2", ".", "0">>
T_A       == <<"A">>
T_ASemi   == <<"A", ";", " ">>
T_ABC     == <<"A", ";", " ", "B", " ", ";", "C">>
T_Gaps    == <<";", "A", ";", " ", ";", "B">>

\* The texts an identity sends under Spec.
Texts == {T_Empty, T_Blank, T_Options, T_Two, T_Zero}
\* The texts sent under SpecWeb: the ones that lead through the wizard.
WebTexts == {T_Options, T_Two}
\* The texts sent under SpecSteps: answer numbers below, inside and above the
\* range, numbers that are no integers, and option lists with one, two and
\* three options and with empty pieces.
StepTexts ==
    {T_Blank, T_Zero, T_Two, T_Five, T_Half, T_TwoDot, T_A, T_ASemi, T_ABC, T_Gaps}
StepSenders == {"100"}

\* Question 1 is a seeded question (of quiz 1, correct option 0); question 3 is
\* the first question a wizard quiz gets (its correct option is 1 whenever the
\* answer number sent was T_Two).
A_Seeded == [questionId |-> 1, selectedOption |-> 0]
A_Wrong  == [questionId |-> 3, selectedOption |-> 0]
A_Right  == [questionId |-> 3, selectedOption |-> 1]

AnswerLists ==
    { <<>>, <<A_Seeded>>, <<A_Wrong>>, <<A_Right>>,
      <<A_Right, A_Wrong>>, <<A_Right, A_Seeded>> }

\* Quiz 2 is the first quiz the wizard creates; quiz 9 never exists.
Payloads ==
    { [type |-> "malformed", quizId |-> 0, answers |-> <<>>],
      [type |-> "other", quizId |-> 0, answers |-> <<>>],
      [type |-> "quiz_result", quizId |-> 9, answers |-> <<>>] }
    \cup { [type |-> "quiz_result", quizId |-> 2, answers |-> l] : l \in AnswerLists }

\* The :id of a GET /api/quizzes/:id request: the seeded quiz, the first quiz
\* of the wizard, and a quiz that never exists.
P_One  == <<"1">>
P_Nine == <<"9">>
ParamIds == {P_One, <<"2">>, P_Nine}

----------------------------------------------------------------------------
(* The handlers, each a whole callback.                                    *)

\* bot.command('create_quiz')
OnCreateQuiz(userId) ==
    /\ db' = db
    /\ storeFailed' = FALSE
    /\ thrown' = "none"
    /\ IF ~isAdmin(userId)
       THEN /\ adminStates' = adminStates
            /\ reply' = Reply(userId, "no_rights", 0, 0)
       ELSE /\ adminStates' = [adminStates EXCEPT ![userId] = NewDraft]
            /\ reply' = Reply(userId, "prompt_title", 0, 0)

\* answers.map(...): correct is q && q.correct_option === a.selectedOption,
\* undefined (falsy) when the quiz has no question with that id.
Enrich(data, answers) ==
    [i \in 1..Len(answers) |->
        [questionId |-> answers[i].questionId,
         selectedOption |-> answers[i].selectedOption,
         correct |-> \E j \in 1..Len(data.questions) :
                        /\ data.questions[j].id = answers[i].questionId
                        /\ data.questions[j].correct_option = answers[i].selectedOption]]

\* enrichedAnswers.filter((a) => a.correct).length
CorrectCount(enriched) == Len(SelectSeq(enriched, LAMBDA a : a.correct))

\* bot.on('message'), the web_app_data branch
OnWebAppData(userId, payload, failAt) ==
    /\ adminStates' = adminStates
    /\ thrown' = "none"
    /\ IF payload.type = "malformed"
       THEN /\ db' = db /\ storeFailed' = FALSE
            /\ reply' = Reply(userId, "webapp_error", 0, 0)
       ELSE IF payload.type # "quiz_result"
       THEN /\ db' = db /\ storeFailed' = FALSE
            /\ reply' = NoReply
       ELSE LET data == getQuizWithQuestions(db, payload.quizId) IN
            IF ~data.found
            THEN /\ db' = db /\ storeFailed' = FALSE
                 /\ reply' = Reply(userId, "quiz_not_found", 0, 0)
            ELSE LET enriched == Enrich(data, payload.answers)
                     tx == saveQuizAnswers(db, userId, payload.quizId, enriched, failAt)
                 IN  /\ db' = tx.db
                     /\ storeFailed' = tx.threw
                     /\ reply' = IF tx.threw
                                 THEN Reply(userId, "webapp_error", 0, 0)
                                 ELSE Reply(userId, "result_saved",
                                            CorrectCount(enriched), Len(enriched))

\* bot.on('message')
OnMessage(userId, upd, failAt) ==
    IF upd.web.type # "none" THEN OnWebAppData(userId, upd.web, failAt)
    ELSE IF ~isAdmin(userId) \/ ~adminStates[userId].present
    THEN /\ UNCHANGED <<db, adminStates>>
         /\ reply' = NoReply /\ storeFailed' = FALSE /\ thrown' = "none"
    ELSE LET state == adminStates[userId]
             out   == WizardStep(state, upd.hasText, upd.text) IN
         IF out.finalize
         THEN LET tx == createQuiz(db, QuizData(state, userId), failAt) IN
              /\ db' = tx.db
              /\ storeFailed' = tx.threw
              /\ IF tx.threw
                 THEN /\ adminStates' = adminStates
                      /\ reply' = NoReply
                      /\ thrown' = "store"
                 ELSE /\ adminStates' = [adminStates EXCEPT ![userId] = NoDraft]
                      /\ reply' = Reply(userId, "created", tx.value, 0)
                      /\ thrown' = "none"
         ELSE /\ db' = db /\ storeFailed' = FALSE /\ thrown' = "none"
              /\ adminStates' = [adminStates EXCEPT ![userId] = out.state]
              /\ reply' = IF out.replied
                          THEN Reply(userId, out.kind, out.a, 0) ELSE NoReply

\* bot.action('finish_quiz'); editOk: ctx.editMessageReplyMarkup() resolved.
OnFinishQuiz(userId, failAt, editOk) ==
    LET state == adminStates[userId] IN
    IF ~state.present
    THEN /\ UNCHANGED <<db, adminStates>>
         /\ storeFailed' = FALSE /\ thrown' = "none"
         /\ reply' = Reply(userId, "no_active", 0, 0)
    ELSE IF NoQuestions(state)
    THEN /\ UNCHANGED <<db, adminStates>>
         /\ storeFailed' = FALSE /\ thrown' = "none"
         /\ reply' = Reply(userId, "need_question", 0, 0)
    ELSE LET tx == createQuiz(db, QuizData(state, userId), failAt) IN
         /\ db' = tx.db
         /\ storeFailed' = tx.threw
         /\ IF tx.threw
            THEN /\ adminStates' = adminStates
                 /\ reply' = NoReply
                 /\ thrown' = "store"
            ELSE /\ adminStates' = [adminStates EXCEPT ![userId] = NoDraft]
                 /\ IF editOk
                    THEN reply' = Reply(userId, "created", tx.value, 0)
                         /\ thrown' = "none"
                    ELSE reply' = NoReply /\ thrown' = "telegram"

\* A fresh draft put in the place of the entry.
DeleteDraftResets(states, userId) == [states EXCEPT ![userId] = NewDraft]

\* The whole map cleared.
DeleteDraftOfEveryone(states, userId) == [u \in DOMAIN states |-> NoDraft]

\* adminStates.delete(userId)
DeleteDraft(states, userId) == [states EXCEPT ![userId] = NoDraft]

\* bot.action('finish_quiz') from its start to its await: what runs before
\* any other update can be handled.
FinishUntilAwait(userId, failAt) ==
    LET state == adminStates[userId] IN
    IF ~state.present
    THEN /\ UNCHANGED <<db, adminStates, awaiting>>
         /\ storeFailed' = FALSE /\ thrown' = "none"
         /\ reply' = Reply(userId, "no_active", 0, 0)
    ELSE IF NoQuestions(state)
    THEN /\ UNCHANGED <<db, adminStates, awaiting>>
         /\ storeFailed' = FALSE /\ thrown' = "none"
         /\ reply' = Reply(userId, "need_question", 0, 0)
    ELSE LET tx == createQuiz(db, QuizData(state, userId), failAt) IN
         /\ db' = tx.db
         /\ storeFailed' = tx.threw
         /\ reply' = NoReply
         /\ IF tx.threw
            THEN /\ UNCHANGED <<adminStates, awaiting>>
                 /\ thrown' = "store"
            ELSE /\ adminStates' = DeleteDraft(adminStates, userId)
                 /\ awaiting' = awaiting \cup {[user |-> userId, quizId |-> tx.value]}
                 /\ thrown' = "none"

\* bot.action('finish_quiz') after its await.
FinishAfterAwait(w, editOk) ==
    /\ awaiting' = awaiting \ {w}
    /\ UNCHANGED <<db, adminStates>>
    /\ storeFailed' = FALSE
    /\ IF editOk
       THEN reply' = Reply(w.user, "created", w.quizId, 0) /\ thrown' = "none"
       ELSE reply' = NoReply /\ thrown' = "telegram"

\* bot.command('open')
OnOpen(userId) ==
    /\ UNCHANGED <<db, adminStates>>
    /\ storeFailed' = FALSE /\ thrown' = "none"
    /\ reply' = Reply(userId, "open_webapp", 0, 0)

\* Telegraf's command filter: the text begins with the command.
IsCommand(upd, name) ==
    /\ upd.kind = "message" /\ upd.hasText
    /\ Len(upd.text) >= Len(name)
    /\ SubSeq(upd.text, 1, Len(name)) = name
    /\ (Len(upd.text) = Len(name) \/ upd.text[Len(name) + 1] = " ")

\* The middleware chain in the order the handlers are registered: the first
\* handler whose filter matches takes the update, and none of them calls next.
\* (bot.start and bot.command('results') come first; the model sends neither.)
Route(upd) ==
    IF IsCommand(upd, CmdCreateQuiz) THEN "create_quiz"
    ELSE IF upd.kind = "message" THEN "message"
    ELSE IF upd.kind = "callback_query" /\ upd.data = "finish_quiz" THEN "finish_quiz"
    ELSE IF IsCommand(upd, CmdOpen) THEN "open"
    ELSE "none"

\* app.get('/api/quizzes/:id'): the response goes out as a reply to "http",
\* 200 with the quiz id and the number of its questions, or 404.
OnGetQuiz(id) ==
    LET quizId == Number(id)
        data   == getQuizWithQuestions(db, quizId.val) IN
    /\ UNCHANGED <<db, adminStates>>
    /\ storeFailed' = FALSE /\ thrown' = "none"
    /\ reply' = IF quizId.nan \/ ~quizId.isInt \/ ~data.found
                THEN Reply("http", "404", 0, 0)
                ELSE Reply("http", "200", quizId.val, Len(data.questions))

\* bot.handleUpdate
Deliver(userId, upd, failAt, editOk) ==
    LET handler == Route(upd) IN
    /\ handled' = [handler |-> handler, user |-> userId,
                   step |-> adminStates[userId].step]
    /\ awaiting' = awaiting
    /\ IF handler = "create_quiz" THEN OnCreateQuiz(userId)
       ELSE IF handler = "message" THEN OnMessage(userId, upd, failAt)
       ELSE IF handler = "finish_quiz" THEN OnFinishQuiz(userId, failAt, editOk)
       ELSE IF handler = "open" THEN OnOpen(userId)
       ELSE /\ UNCHANGED <<db, adminStates>>
            /\ reply' = NoReply /\ storeFailed' = FALSE /\ thrown' = "none"

----------------------------------------------------------------------------
(* The updates the bot receives.                                           *)

\* What holds of every state the model explores.
Bounded ==
    /\ Len(db.answers) <= MaxAnswerRows
    /\ \A u \in Users :
          Len(db.questions) + Len(adminStates[u].quiz.questions) <= MaxQuestionRows

Inserts(userId) == 1 + Len(adminStates[userId].quiz.questions)

CommandCreateQuiz(u) ==
    Deliver(u, TextMsg(CmdCreateQuiz), 0, TRUE) /\ Bounded'

TextMessage(u, t) ==
    \E failAt \in 0..Inserts(u) :
        Deliver(u, TextMsg(t), failAt, TRUE) /\ Bounded'

NoTextMessage(u) ==
    Deliver(u, NoTextMsg, 0, TRUE) /\ Bounded'

CommandOpen(u) ==
    \E failAt \in 0..Inserts(u) :
        Deliver(u, TextMsg(CmdOpen), failAt, TRUE) /\ Bounded'

PressFinish(u) ==
    \E failAt \in 0..Inserts(u), editOk \in BOOLEAN :
        Deliver(u, Callback("finish_quiz"), failAt, editOk) /\ Bounded'

WebAppData(u, p) ==
    \E failAt \in 0..Len(p.answers) :
        Deliver(u, WebMsg(p), failAt, TRUE) /\ Bounded'

\* The finish button pressed: the callback runs up to its await.
BeginFinish(u) ==
    \E failAt \in 0..Inserts(u) :
        /\ Route(Callback("finish_quiz")) = "finish_quiz"
        /\ FinishUntilAwait(u, failAt)
        /\ handled' = [handler |-> "finish_quiz", user |-> u,
                       step |-> adminStates[u].step]
        /\ Bounded'

\* editMessageReplyMarkup settles and a suspended callback runs to its end.
EndFinish(w) ==
    \E editOk \in BOOLEAN :
        /\ w \in awaiting
        /\ FinishAfterAwait(w, editOk)
        /\ handled' = [handler |-> "finish_quiz resumed", user |-> w.user,
                       step |-> adminStates[w.user].step]

GetQuiz(id) ==
    /\ OnGetQuiz(id)
    /\ handled' = [handler |-> "GET /api/quizzes/:id", user |-> "", step |-> "none"]
    /\ awaiting' = awaiting
    /\ Bounded'

Init ==
    /\ db = seedExampleQuiz(EmptyDb)
    /\ adminStates = [u \in Users |-> NoDraft]
    /\ reply = NoReply
    /\ storeFailed = FALSE
    /\ thrown = "none"
    /\ handled = [handler |-> "none", user |-> "", step |-> "none"]
    /\ awaiting = {}

Next ==
    \E u \in Senders :
        \/ CommandCreateQuiz(u)
        \/ \E t \in Texts : TextMessage(u, t)
        \/ NoTextMessage(u)
        \/ CommandOpen(u)
        \/ PressFinish(u)

Spec == Init /\ [][Next]_vars

NextWeb ==
    \E u \in WebSenders :
        \/ CommandCreateQuiz(u)
        \/ \E t \in WebTexts : TextMessage(u, t)
        \/ PressFinish(u)
        \/ \E p \in Payloads : WebAppData(u, p)
        \/ \E id \in ParamIds : GetQuiz(id)

SpecWeb == Init /\ [][NextWeb]_vars

\* One administrator going through the wizard with the texts of StepTexts,
\* from the state in which the title T_A has just been taken.
InitSteps ==
    /\ db = seedExampleQuiz(EmptyDb)
    /\ adminStates =
          [u \in Users |->
              IF u \in StepSenders
              THEN WizardStep(NewDraft, TRUE, T_A).state
              ELSE NoDraft]
    /\ reply = NoReply
    /\ storeFailed = FALSE
    /\ thrown = "none"
    /\ handled = [handler |-> "none", user |-> "", step |-> "none"]
    /\ awaiting = {}

NextSteps ==
    \E u \in StepSenders, t \in StepTexts : TextMessage(u, t)

SpecSteps == InitSteps /\ [][NextSteps]_vars

\* Two administrators, their updates interleaved; a finish callback yields at
\* its await and resumes after any number of other updates.
TwoSenders == {"100", "101"}

NextTwo ==
    \/ \E u \in TwoSenders :
          \/ CommandCreateQuiz(u)
          \/ \E t \in WebTexts : TextMessage(u, t)
          \/ BeginFinish(u)
    \/ \E w \in awaiting : EndFinish(w)

SpecTwo == Init /\ [][NextTwo]_vars

----------------------------------------------------------------------------
(* Claims.                                                                 *)

\* The draft of u is waiting for a question text.
AwaitingQuestionText(u) ==
    adminStates[u].present /\ adminStates[u].step = "question_text"

Collected(u) == Len(adminStates[u].quiz.questions)

\* The quiz row and question rows that quizData becomes, appended to the tables.
Persisted(before, after, quizData) ==
    LET quizId == Len(before.quizzes) + 1
        n      == Len(quizData.questions)
        base   == Len(before.questions) IN
    /\ after.quizzes = Append(before.quizzes,
                              [id |-> quizId, title |-> quizData.title,
                               created_by |-> quizData.createdBy])
    /\ Len(after.questions) = base + n
    /\ SubSeq(after.questions, 1, base) = before.questions
    /\ \A i \in 1..n :
          LET row == after.questions[base + i] IN
          /\ row.quiz_id = quizId
          /\ row.text = quizData.questions[i].text
          /\ JSONparse(row.options) = quizData.questions[i].options
          /\ row.correct_option = quizData.questions[i].correctOption
    /\ after.answers = before.answers

\* C1: when an administrator's draft is in awaiting_question_text and holds at
\* least one collected question, a message whose text is the empty string
\* finalizes the draft: create-quiz is called with the draft title, the sender
\* as creator and the accumulated questions, the draft is removed from the
\* map, and a success reply carrying the new quiz identifier is emitted.
C1_EmptyTextFinalizes ==
    [][\A u \in Senders :
          (/\ u \in ADMIN_IDS /\ AwaitingQuestionText(u) /\ Collected(u) >= 1
           /\ TextMessage(u, T_Empty))
          => (/\ Persisted(db, db', [title |-> adminStates[u].quiz.title,
                                     createdBy |-> u,
                                     questions |-> adminStates[u].quiz.questions])
              /\ ~adminStates'[u].present
              /\ reply'.kind = "created"
              /\ reply'.a = Len(db'.quizzes))]_vars

InRange(c, optionCount) == 0 <= c /\ c <= optionCount - 1

\* C2: every question handed to create-quiz by the wizard has a correct-option
\* index c with 0 <= c <= optionCount - 1 for its own options list.  What the
\* wizard hands over is the question list of a draft, so the property is
\* stated of every question collected in a draft and of every question row
\* stored.
C2_CorrectIndexInRange ==
    /\ \A u \in Users : \A i \in 1..Collected(u) :
          LET q == adminStates[u].quiz.questions[i] IN
          InRange(q.correctOption, Len(q.options))
    /\ \A i \in 1..Len(db.questions) :
          InRange(db.questions[i].correct_option,
                  Len(JSONparse(db.questions[i].options)))

\* A finish press has stored a quiz of the wizard, its question with it.
C2_Witness ==
    /\ \E i \in 1..Len(db.questions) : db.questions[i].quiz_id = 2
    /\ handled.handler = "finish_quiz"
    /\ reply.kind = "created"

\* C3: submitting an empty question text while the draft has zero collected
\* questions never calls create-quiz, never removes the draft, and leaves the
\* draft's step, title, question list and in-progress question unchanged.
\* (The text is empty as sent, or blank and so empty once trimmed.)
C3_EmptyTextWithoutQuestions ==
    [][\A u \in Senders : \A t \in {T_Empty, T_Blank} :
          (/\ u \in ADMIN_IDS /\ AwaitingQuestionText(u) /\ Collected(u) = 0
           /\ TextMessage(u, t))
          => (db' = db /\ adminStates' = adminStates)]_vars

\* An administrator's empty message was answered while the draft waited for
\* its first question text.
C3_Witness ==
    /\ handled.handler = "message" /\ handled.step = "question_text"
    /\ handled.user \in ADMIN_IDS
    /\ AwaitingQuestionText(handled.user) /\ Collected(handled.user) = 0
    /\ reply.kind = "need_text"

C5_BeginCreation ==
    [][\A u \in Senders :
          CommandCreateQuiz(u)
          => /\ db' = db
             /\ \A v \in Users \ {u} : adminStates'[v] = adminStates[v]
             /\ IF u \in ADMIN_IDS
                THEN /\ adminStates'[u].present
                     /\ adminStates'[u].step = "title"
                     /\ adminStates'[u].quiz.title = <<>>
                     /\ adminStates'[u].quiz.questions = <<>>
                     /\ adminStates'[u].currentQuestion = EmptyQuestion
                ELSE adminStates'[u] = adminStates[u]]_vars

\* A begin command has replaced a draft that was waiting for an answer number.
C5_Witness ==
    /\ handled.handler = "create_quiz"
    /\ handled.step = "correct_index"
    /\ adminStates[handled.user].step = "title"
    /\ adminStates[handled.user].quiz.questions = <<>>

\* C6: every open-webview command produces a reply offering the button that
\* launches the web view, whatever the sender's identity and wizard state, and
\* the command text is never consumed as wizard input for the sender's draft.
C6_OpenCommandReplies ==
    [][\A u \in Senders :
          CommandOpen(u)
          => (reply' = Reply(u, "open_webapp", 0, 0)
              /\ adminStates' = adminStates)]_vars

\* The question row an answer row references.
Referenced(row) ==
    {j \in 1..Len(db.questions) : db.questions[j].id = row.question_id}

\* The rows the last submission recorded: the last n of the table.
LastRows(n) == SubSeq(db.answers, Len(db.answers) - n + 1, Len(db.answers))

\* C7: every answer row recorded from a web-view quiz submission has its
\* correctness flag equal to (selected option = the correct index of the
\* question the answer references), and the tally in the reply equals the
\* number of recorded rows whose flag is true out of the number of answers
\* submitted.
C7_AnswerFlags ==
    /\ \A i \in 1..Len(db.answers) : \A j \in Referenced(db.answers[i]) :
          (db.answers[i].correct = 1)
              <=> (db.answers[i].selected_option = db.questions[j].correct_option)
    /\ reply.kind = "result_saved"
          => /\ reply.b <= Len(db.answers)
             /\ reply.a = Len(SelectSeq(LastRows(reply.b), LAMBDA r : r.correct = 1))

\* C8: create-quiz and record-answers are all-or-nothing: if any insert of the
\* call fails (the last one included), no row of that call is visible
\* afterwards and the failure reaches the caller; if none fails, the quiz row
\* and all of its question rows (or all answer rows) are visible together.
C8_AllOrNothing ==
    [][/\ storeFailed'
          => /\ db' = db
             /\ thrown' = "store" \/ reply'.kind = "webapp_error"
       /\ (~storeFailed' /\ db' # db)
          => \/ /\ reply'.kind = "result_saved"
                /\ db'.quizzes = db.quizzes /\ db'.questions = db.questions
                /\ Len(db'.answers) = Len(db.answers) + reply'.b
                /\ SubSeq(db'.answers, 1, Len(db.answers)) = db.answers
             \/ /\ reply'.kind # "result_saved"
                /\ Persisted(db, db',
                             [title |-> adminStates[handled'.user].quiz.title,
                              createdBy |-> handled'.user,
                              questions |->
                                  adminStates[handled'.user].quiz.questions])]_vars

\* An insert of create-quiz has thrown during a finish press: the exception
\* reached the handler and the tables hold the seeded rows alone.
C8_Witness ==
    /\ storeFailed /\ thrown = "store"
    /\ handled.handler = "finish_quiz"
    /\ Collected(handled.user) >= 1
    /\ Len(db.quizzes) = 1 /\ Len(db.questions) = 2

\* C9: whenever a store write fails while handling a chat update, the handler
\* reports a generic error reply to the sender and the failure does not
\* escape the handler.
C9_StoreFailureReported ==
    storeFailed
        => /\ reply.to = handled.user
           /\ reply.kind = "webapp_error"
           /\ thrown = "none"

RejectionKinds == {"need_text", "need_two_options", "bad_index", "need_question"}

\* The text t fails the validation of the step the draft is in.
InvalidInput(state, t) ==
    \/ Trim(t) = <<>>
    \/ state.step = "options" /\ Len(ParseOptions(Trim(t))) < 2
    \/ /\ state.step = "correct_index"
       /\ LET k == Number(Trim(t)) IN
          k.nan \/ ~k.isInt \/ k.val < 1 \/ k.val > Len(state.currentQuestion.options)

\* C10: every wizard input rejected by validation (a message without text,
\* fewer than two options, a non-integer or out-of-range answer number, a
\* finish request with zero questions) produces a reply and leaves the
\* sender's draft exactly as it was.
C10_RejectionLeavesDraft ==
    [][/\ reply'.kind \in RejectionKinds
          => /\ reply'.to = handled'.user
             /\ adminStates' = adminStates
             /\ db' = db
       /\ \A u \in Senders :
            (u \in ADMIN_IDS /\ adminStates[u].present)
            => /\ NoTextMessage(u) => reply' = Reply(u, "need_text", 0, 0)
               /\ \A t \in Texts :
                    (TextMessage(u, t) /\ InvalidInput(adminStates[u], t))
                    => (reply'.kind \in RejectionKinds /\ reply'.to = u)
               /\ (PressFinish(u) /\ Collected(u) = 0)
                    => reply' = Reply(u, "need_question", 0, 0)]_vars

\* An answer number was rejected and the draft still waits for it, the
\* question in progress in place.
C10_Witness ==
    /\ reply.kind = "bad_index"
    /\ handled.step = "correct_index"
    /\ adminStates[handled.user].step = "correct_index"
    /\ Len(adminStates[handled.user].currentQuestion.options) = 2

----------------------------------------------------------------------------
(* The answer number and the option list, text by text.                    *)

\* What each text of StepTexts reads as when it is taken as a number: the
\* integer it denotes, or -1 where it denotes no integer.
IntegerOf(t) ==
    CASE t = T_Zero   -> 0
      [] t = T_Two    -> 2
      [] t = T_TwoDot -> 2
      [] t = T_Five   -> 5
      [] OTHER        -> -1

\* C11: in the step that awaits the answer number, with n stored options, a
\* text that is no integer or an integer outside 1..n is rejected and leaves
\* the draft where it is; an integer k in 1..n stores k - 1 as the correct
\* index, appends the completed question, resets the question in progress and
\* returns the draft to the step that awaits a question text.
C11_AnswerNumber ==
    [][\A u \in StepSenders, t \in StepTexts \ {T_Blank} :
         LET state == adminStates[u]
             n     == Len(state.currentQuestion.options)
             k     == IntegerOf(t)
         IN  (state.present /\ state.step = "correct_index" /\ TextMessage(u, t))
             => IF k >= 1 /\ k <= n
                THEN /\ adminStates'[u] =
                          [state EXCEPT
                              !.quiz.questions =
                                  Append(@, [text |-> state.currentQuestion.text,
                                             options |-> state.currentQuestion.options,
                                             correctOption |-> k - 1]),
                              !.currentQuestion = EmptyQuestion,
                              !.step = "question_text"]
                     /\ reply'.kind = "question_saved"
                ELSE /\ adminStates' = adminStates
                     /\ reply' = Reply(u, "bad_index", n, 0)]_vars

\* With three options stored, the answer number 2 was taken and stored as 1.
C11_Witness ==
    \E u \in StepSenders :
        /\ handled.handler = "message" /\ handled.step = "correct_index"
        /\ reply.kind = "question_saved"
        /\ Collected(u) = 1
        /\ Len(adminStates[u].quiz.questions[1].options) = 3
        /\ adminStates[u].quiz.questions[1].correctOption = 1

\* The options each text of StepTexts lists: the pieces between semicolons
\* without the blanks around them, the empty pieces left out.
OptionsOf(t) ==
    CASE t = T_ABC   -> << <<"A">>, <<"B">>, <<"C">> >>
      [] t = T_Gaps  -> << <<"A">>, <<"B">> >>
      [] t = T_ASemi -> << <<"A">> >>
      [] t = T_A     -> << <<"A">> >>
      [] t = T_Zero  -> << <<"0">> >>
      [] t = T_Two   -> << <<"2">> >>
      [] t = T_Five  -> << <<"5">> >>
      [] t = T_Half  -> << <<"1", ".", "5">> >>
      [] t = T_TwoDot -> << <<"2", ".", "0">> >>
      [] OTHER       -> << >>

\* C12: in the step that awaits the options the text is split on semicolons,
\* each piece trimmed and the empty pieces discarded; with fewer than two
\* pieces left the text is rejected and the draft stays where it is, otherwise
\* the pieces are stored in order and the draft awaits the answer number.
\* Hence every collected question has at least two options, none of them empty.
C12_OptionList ==
    [][/\ \A u \in StepSenders, t \in StepTexts \ {T_Blank} :
            LET state == adminStates[u]
                parts == OptionsOf(t)
            IN  (state.present /\ state.step = "options" /\ TextMessage(u, t))
                => IF Len(parts) < 2
                   THEN /\ adminStates' = adminStates
                        /\ reply' = Reply(u, "need_two_options", 0, 0)
                   ELSE /\ adminStates'[u] =
                             [state EXCEPT !.currentQuestion.options = parts,
                                           !.step = "correct_index"]
                        /\ reply'.kind = "prompt_index"
       /\ \A u \in Users :
            \A i \in 1..Len(adminStates'[u].quiz.questions) :
                LET options == adminStates'[u].quiz.questions[i].options
                IN  /\ Len(options) >= 2
                    /\ \A j \in 1..Len(options) : options[j] # <<>>]_vars

\* A text with empty pieces was taken as the two options it lists and the
\* question was collected.
C12_Witness ==
    \E u \in StepSenders :
        /\ Collected(u) = 1
        /\ adminStates[u].quiz.questions[1].options = << <<"A">>, <<"B">> >>
        /\ handled.step = "correct_index"

----------------------------------------------------------------------------
(* Lookups of a quiz that does not exist.                                  *)

QuizExists(quizId) == \E i \in 1..Len(db.quizzes) : db.quizzes[i].id = quizId

\* The quiz id each request parameter names.
IdOf(id) == IF id = P_One THEN 1 ELSE IF id = P_Nine THEN 9 ELSE 2

\* C13: a web-view submission that names a quiz that does not exist records
\* no answer row and is answered with the not-found reply, not with an error;
\* an HTTP fetch of an absent quiz id is answered 404 and changes no state.
C13_AbsentQuiz ==
    [][/\ \A u \in WebSenders, p \in Payloads :
            (p.type = "quiz_result" /\ ~QuizExists(p.quizId) /\ WebAppData(u, p))
            => /\ db' = db /\ adminStates' = adminStates
               /\ reply' = Reply(u, "quiz_not_found", 0, 0)
               /\ thrown' = "none" /\ ~storeFailed'
       /\ \A id \in ParamIds :
            (~QuizExists(IdOf(id)) /\ GetQuiz(id))
            => /\ db' = db /\ adminStates' = adminStates
               /\ reply' = Reply("http", "404", 0, 0)]_vars

\* A submission that names a quiz that does not exist got the not-found reply
\* and the answers table is still empty.
C13_Witness ==
    /\ handled.handler = "message"
    /\ reply.kind = "quiz_not_found"
    /\ Len(db.quizzes) = 1
    /\ db.answers = <<>>

----------------------------------------------------------------------------
(* Messages the wizard ignores.                                            *)

\* C14: a message without a quiz-submission payload, sent by an identity that
\* is no administrator or that has no draft, gets no reply and changes neither
\* the draft map nor the store.
C14_IgnoredMessage ==
    [][\A u \in Senders :
         (/\ u \notin ADMIN_IDS \/ ~adminStates[u].present
          /\ (\E t \in Texts : TextMessage(u, t)) \/ NoTextMessage(u))
         => /\ reply' = NoReply
            /\ adminStates' = adminStates
            /\ db' = db
            /\ thrown' = "none"]_vars

\* The identity that is no administrator sent a message while an administrator
\* had a draft, and nothing was replied.
C14_Witness ==
    /\ handled.handler = "message" /\ handled.user = "200"
    /\ reply = NoReply
    /\ adminStates["100"].present /\ adminStates["100"].step = "options"

----------------------------------------------------------------------------
(* The order of the wizard's steps.                                        *)

StepEdges ==
    { <<"title", "question_text">>, <<"question_text", "options">>,
      <<"options", "correct_index">>, <<"correct_index", "question_text">> }

\* C15: the step of a draft changes only from title to question text, from
\* question text to options, from options to answer number and from answer
\* number back to question text; besides, the begin command puts a fresh draft
\* at the title step and a finalization removes the draft.  So a question is
\* appended only when its text, its options and its answer number have been
\* taken, in that order.
C15_StepOrder ==
    [][\A u \in Users :
         LET old == adminStates[u]
             new == adminStates'[u]
         IN  /\ old.step # new.step
                => \/ /\ old.present /\ new.present
                      /\ <<old.step, new.step>> \in StepEdges
                      /\ \E t \in Texts \cup {CmdOpen} : TextMessage(u, t)
                   \/ /\ new = NewDraft
                      /\ CommandCreateQuiz(u)
                   \/ /\ ~new.present
                      /\ Persisted(db, db', QuizData(old, u))
             /\ old.quiz.questions # new.quiz.questions /\ new.present
                => \/ new = NewDraft /\ CommandCreateQuiz(u)
                   \/ /\ old.step = "correct_index" /\ new.step = "question_text"
                      /\ old.currentQuestion.text # <<>>
                      /\ Len(old.currentQuestion.options) >= 2
                      /\ \E k \in 0..(Len(old.currentQuestion.options) - 1) :
                            new.quiz.questions =
                                Append(old.quiz.questions,
                                       [old.currentQuestion EXCEPT !.correctOption = k])]_vars

\* A draft went once round the cycle: its first question was appended when
\* the answer number was taken.
C15_Witness ==
    \E u \in Senders :
        /\ handled.handler = "message" /\ handled.user = u
        /\ handled.step = "correct_index"
        /\ adminStates[u].step = "question_text"
        /\ Collected(u) = 1

----------------------------------------------------------------------------
(* Drafts of different identities.                                         *)

\* C16: whatever the interleaving of the updates of different identities,
\* handling an update of one identity never creates, changes or removes the
\* draft of another, and a quiz that an identity finalizes holds the title and
\* the questions of that identity's own draft and nothing else.
C16_DraftsIsolated ==
    [][\A a \in TwoSenders :
         handled'.user = a
         => /\ \A b \in Users \ {a} : adminStates'[b] = adminStates[b]
            /\ db' # db => Persisted(db, db', QuizData(adminStates[a], a))]_vars

\* One administrator finalized a quiz while the other held a draft with a
\* different title and a question in progress.
C16_Witness ==
    /\ handled.handler = "finish_quiz" /\ handled.user = "100"
    /\ Len(db.quizzes) = 2 /\ db.quizzes[2].created_by = "100"
    /\ adminStates["101"].present
    /\ adminStates["101"].step = "correct_index"
    /\ adminStates["101"].quiz.title # db.quizzes[2].title

----------------------------------------------------------------------------
(* What a persisted wizard quiz holds.                                     *)

\* Each text of Texts, and the text of the open command, without the blanks
\* around it.
TrimmedOf(t) ==
    IF t = T_Blank THEN <<>> ELSE IF t = T_Two THEN <<"2">> ELSE t

QuestionRowsOf(d, quizId) == SelectSeq(d.questions, LAMBDA q : q.quiz_id = quizId)

\* C17: every quiz the wizard persists has a non-empty title, which is the
\* text that was taken in the title step, at least one question, and a
\* non-empty text in every question.
C17_PersistedQuizWellFormed ==
    [][/\ \A u \in Senders, t \in Texts \cup {CmdOpen} :
            (/\ adminStates[u].present /\ adminStates[u].step = "title"
             /\ TextMessage(u, t)
             /\ adminStates'[u].step # "title")
            => /\ adminStates'[u].quiz.title = TrimmedOf(t)
               /\ TrimmedOf(t) # <<>>
       /\ \A u \in Users :
            (/\ adminStates[u].present /\ adminStates'[u].present
             /\ adminStates'[u].quiz.title # adminStates[u].quiz.title)
            => adminStates[u].step = "title" \/ adminStates'[u] = NewDraft
       /\ db'.quizzes # db.quizzes
            => /\ Len(db'.quizzes) = Len(db.quizzes) + 1
               /\ db'.quizzes[Len(db'.quizzes)].title
                     = adminStates[handled'.user].quiz.title
       /\ \A i \in 1..Len(db'.quizzes) :
            db'.quizzes[i].created_by # "system"
            => LET rows == QuestionRowsOf(db', db'.quizzes[i].id) IN
               /\ db'.quizzes[i].title # <<>>
               /\ Len(rows) >= 1
               /\ \A j \in 1..Len(rows) : rows[j].text # <<>>]_vars

\* A quiz whose title was sent with a blank before it is persisted under the
\* title without the blank.
C17_Witness ==
    \E i \in 1..Len(db.quizzes) :
        /\ db.quizzes[i].created_by = "100"
        /\ db.quizzes[i].title = <<"2">>
        /\ Len(QuestionRowsOf(db, db.quizzes[i].id)) = 1

----------------------------------------------------------------------------
(* Finishing a draft once.                                                 *)

\* C18: a draft is persisted at most once.  A finish that persists the draft
\* removes it before the callback yields, so a finish pressed again, or while
\* the first callback is still suspended, finds no draft, replies that no
\* creation is active and persists nothing; a draft is removed only by a
\* create-quiz that succeeded, so a create-quiz that failed leaves it in place.
C18_PersistedOnce ==
    [][\A u \in TwoSenders :
         LET finishing == handled'.handler = "finish_quiz" /\ handled'.user = u IN
         /\ (finishing /\ db'.quizzes # db.quizzes)
            => ~adminStates'[u].present
         /\ (finishing /\ ~adminStates[u].present)
            => /\ reply' = Reply(u, "no_active", 0, 0)
               /\ db' = db
               /\ awaiting' = awaiting
         /\ (adminStates[u].present /\ ~adminStates'[u].present)
            => /\ finishing
               /\ ~storeFailed'
               /\ Persisted(db, db', QuizData(adminStates[u], u))
         /\ (finishing /\ storeFailed')
            => adminStates' = adminStates]_vars

\* The finish button was pressed again while the callback of the first press
\* was still suspended: no creation is active, and the store holds one quiz of
\* the wizard.
C18_Witness ==
    /\ handled.handler = "finish_quiz"
    /\ reply.kind = "no_active"
    /\ \E w \in awaiting : w.user = handled.user
    /\ Len(db.quizzes) = 2

----------------------------------------------------------------------------
(* Whose drafts there are.                                                 *)

\* C19: in every reachable state the keys of the draft map are identities of
\* the administrator allow-list; so the finish action, which makes no
\* administrator check of its own, never persists a quiz for an identity that
\* is no administrator, and every quiz the wizard persisted was created by an
\* administrator.
C19_DraftsOfAdministrators ==
    [][/\ \A u \in Users : adminStates'[u].present => u \in ADMIN_IDS
       /\ \A u \in Senders \ ADMIN_IDS :
            PressFinish(u)
            => /\ db' = db
               /\ reply' = Reply(u, "no_active", 0, 0)
       /\ \A i \in 1..Len(db'.quizzes) :
            db'.quizzes[i].created_by \in ADMIN_IDS \cup {"system"}]_vars

\* The identity that is no administrator pressed the finish button and was
\* told that no creation is active; the one quiz of the wizard in the store was
\* created by an administrator.
C19_Witness ==
    /\ handled.handler = "finish_quiz" /\ handled.user = "200"
    /\ reply.kind = "no_active"
    /\ Len(db.quizzes) = 2 /\ db.quizzes[2].created_by = "100"

====
